---- MODULE Spec2Model ----
(***************************************************************************)
(* Model of log-viewer/log-writer.py: the rotation sink built by           *)
(* create_log_handler (logging.handlers.TimedRotatingFileHandler or the    *)
(* RotatingFileHandlerWithoutShouldRollOver subclass), the ANSI filter      *)
(* strip_ansi_codes and the stream pump stream_logs_to_file with its       *)
(* signal handler.  Time is counted in whole days (the only boundary the   *)
(* "midnight" handler looks at); a file is a sequence of entries            *)
(* <<id, text>> where id numbers the emit call that wrote the entry.        *)
(***************************************************************************)
EXTENDS Integers, Sequences, FiniteSets, TLC

\* ---------------------------------------------------------------- bounds
MaxDay == 2
MaxKeep == 2
MaxLines == 2
MaxRuns == 2
MaxSignals == 2
MaxPipe == 2
MaxWriteErrors == 1
MaxStrLen == 6

\* ------------------------------------------------------------- alphabet
ESC == "ESC"
LBR == "["
NL == "\n"
Digits == {"0", "3"}
Letters == {"m", "K", "b", "a"}
ParamChars == Digits \cup {";"}

\* The absent file: a marker shaped like a content (so that any two values
\* of a file variable can be compared) that no content equals, since no
\* entry carries its id.
NoFile == << <<-2, <<"absent">>>> >>

\* Lines the producer can write (raw, as readline returns them).
RawLines ==
  { <<"a", NL>>,
    <<ESC, LBR, "3", "m", "b", ESC, LBR, "m", NL>> }

\* Content found on disk before the first run.
OldActive == << <<0, <<"o">>>> >>
OldBackup == << <<-1, <<"p">>>> >>

\* Exit statuses the producer can end with by itself.
OwnStatuses == {0, 2}

\* ------------------------------------------------------ strip_ansi_codes
\* Index of the first position >= i of s that is not a digit or ';'
\* (Len(s)+1 when there is none): the greedy [0-9;]* of the pattern.
RECURSIVE SkipParams(_, _)
SkipParams(s, i) ==
  IF i <= Len(s) /\ s[i] \in ParamChars THEN SkipParams(s, i + 1) ELSE i

\* Variant of MatchAt for the pattern \x1b\[[0-9;]+[a-zA-Z].
MatchAtOneParam(s, i) ==
  IF i + 1 <= Len(s) /\ s[i] = ESC /\ s[i + 1] = LBR
  THEN LET j == SkipParams(s, i + 2)
       IN  IF j > i + 2 /\ j <= Len(s) /\ s[j] \in Letters THEN j ELSE 0
  ELSE 0

\* End index of the match of \x1b\[[0-9;]*[a-zA-Z] starting at i, or 0.
MatchAt(s, i) ==
  IF i + 1 <= Len(s) /\ s[i] = ESC /\ s[i + 1] = LBR
  THEN LET j == SkipParams(s, i + 2)
       IN  IF j <= Len(s) /\ s[j] \in Letters THEN j ELSE 0
  ELSE 0

RECURSIVE StripFrom(_, _)
StripFrom(s, i) ==
  IF i > Len(s) THEN <<>>
  ELSE LET e == MatchAt(s, i)
       IN  IF e > 0 THEN StripFrom(s, e + 1)
           ELSE <<s[i]>> \o StripFrom(s, i + 1)

strip_ansi_codes(text) == StripFrom(text, 1)

\* line.rstrip('\n'): drops every trailing newline.
RECURSIVE rstrip_nl(_)
rstrip_nl(s) ==
  IF Len(s) > 0 /\ s[Len(s)] = NL THEN rstrip_nl(SubSeq(s, 1, Len(s) - 1))
  ELSE s

clean_line(line) == strip_ansi_codes(rstrip_nl(line))

\* ------------------------------------------------------------------ state
VARIABLES
  policy,       \* "single" (rotate_days unset) or "timed"
  keepCount,    \* rotate_days, the backupCount of the timed handler
  today,        \* the clock, in days
  active,       \* content of the file at log_path, or NoFile
  activeMtime,  \* day of the last modification of the active file
  backups,      \* backup name -> content: name 1 is <path>.1, a timed
                \* backup is named by the day its suffix shows
  pruned,       \* ids of the entries of deleted backups
  sink,         \* "absent", "open", "noStream" (stream is None), "closed"
  rolloverAt,   \* the timed handler's next rollover day
  ctorErr,      \* how the last create_log_handler went
  ctorCause,    \* class of the error it met, or "none"
  lastEmitDay,  \* day of the sink's previous emit; before its first emit,
                \* the day the active file was last written
  preActive,    \* the active file just before the last create_log_handler
  preBackups,   \* the backups just before the last create_log_handler
  pc,           \* position of the main thread
  inHandler,    \* TRUE while signal_handler is running
  unwind,       \* where SystemExit lands: "finally" or "exit"
  pending,      \* what the finally block resumes: "normal", "return1", "sysexit"
  cur,          \* the line read and not yet forwarded
  retval,       \* the pump's return value
  diag,         \* the status named by the "exited with code" diagnostic
  exitStatus,   \* status of the ended process
  sigCount,     \* shutdown signals delivered in this run
  sigSeen,      \* a signal_handler has started in this run
  streamErr,    \* the except Exception clause has run
  proc,         \* producer: "none", "alive", "dead"
  procStatus,   \* the producer's exit status
  reaped,       \* process.returncode is not None
  returncode,   \* process.returncode once it is set
  termReq,      \* process.terminate() has been called
  termSent,     \* SIGTERM is pending at the producer
  stdoutOpen,   \* the producer still holds its end of the pipe
  pipe,         \* lines written and not yet read
  written,      \* every line the producer wrote in this run
  emitted,      \* every line passed to logger.info in this run
  lastWrite,    \* result of the last emit: "none", "ok", "failed"
  nextId,       \* id of the next emit
  dropped,      \* ids of the emits whose write failed
  rotations,    \* the active file's content at each rotation done by emit
  nWritten,     \* lines written over all runs
  runs          \* processes started so far

diskVars == <<active, activeMtime, backups, pruned>>
sinkVars == <<sink, rolloverAt, ctorErr, ctorCause, lastEmitDay, preActive,
              preBackups>>
ctlVars == <<pc, inHandler, unwind, pending, cur, retval, diag, exitStatus,
             sigCount, sigSeen, streamErr>>
procVars == <<proc, procStatus, reaped, returncode, termReq, termSent,
              stdoutOpen>>
ioVars == <<pipe, written, nWritten>>
histVars == <<emitted, lastWrite, nextId, dropped, rotations>>
vars == <<policy, keepCount, today, diskVars, sinkVars, ctlVars, procVars,
          ioVars, histVars, runs>>

Ids(content) == IF content = NoFile THEN {}
                ELSE {content[i][1] : i \in 1..Len(content)}

NoBackups == [n \in {} |-> <<>>]
Put(f, n, v) == [m \in (DOMAIN f) \cup {n} |-> IF m = n THEN v ELSE f[m]]
Drop(f, S) == [m \in (DOMAIN f) \ S |-> f[m]]
AllIds(f, S) == UNION {Ids(f[n]) : n \in S}

\* ---------------------------------------------------------- rotation sink
\* The stream opened in mode 'a': the file is created when it is absent.
OpenAppend(act) == IF act = NoFile THEN <<>> ELSE act
MtimeAfterOpen(act, mt, now) == IF act = NoFile THEN now ELSE mt

\* Variant: an empty active file is not rotated.
RolloverSingleSkipsEmpty(act, baks) ==
  IF act = NoFile \/ Len(act) = 0
  THEN [ active |-> <<>>, backups |-> baks, pruned |-> {} ]
  ELSE [ active  |-> <<>>,
         backups |-> Put(baks, 1, act),
         pruned  |-> IF 1 \in DOMAIN baks THEN Ids(baks[1]) ELSE {} ]

\* Variant: the active file is copied to <path>.1 and not started afresh.
RolloverSingleKeepsActive(act, baks) ==
  [ active  |-> act,
    backups |-> IF act = NoFile THEN Drop(baks, {1}) ELSE Put(baks, 1, act),
    pruned  |-> IF 1 \in DOMAIN baks THEN Ids(baks[1]) ELSE {} ]

\* RotatingFileHandler.doRollover with backupCount = 1: <path>.1 is removed,
\* the active file renamed to it, and a new active file opened.
RolloverSingle(act, baks) ==
  [ active  |-> <<>>,
    backups |-> IF act = NoFile THEN Drop(baks, {1}) ELSE Put(baks, 1, act),
    pruned  |-> IF 1 \in DOMAIN baks THEN Ids(baks[1]) ELSE {} ]

\* Variant: one backup too many is kept.
FilesToDeleteKeepsOneMore(baks, keep) ==
  {n \in DOMAIN baks : Cardinality({m \in DOMAIN baks : m > n}) > keep}

\* Variant: the newest names are deleted, not the oldest.
FilesToDeleteNewest(baks, keep) ==
  IF Cardinality(DOMAIN baks) < keep THEN {}
  ELSE {n \in DOMAIN baks : Cardinality({m \in DOMAIN baks : m < n}) >= keep}

\* TimedRotatingFileHandler.getFilesToDelete: all but the backupCount
\* newest names.
FilesToDelete(baks, keep) ==
  IF Cardinality(DOMAIN baks) < keep THEN {}
  ELSE {n \in DOMAIN baks : Cardinality({m \in DOMAIN baks : m > n}) >= keep}

\* TimedRotatingFileHandler.doRollover: the backup is named for the day
\* before rolloverAt; an existing file of that name is replaced.
RolloverTimed(act, baks, at, keep) ==
  LET dfn == at - 1
      b1 == IF act = NoFile THEN Drop(baks, {dfn}) ELSE Put(baks, dfn, act)
      del == IF keep > 0 THEN FilesToDelete(b1, keep) ELSE {}
  IN  [ active  |-> <<>>,
        backups |-> Drop(b1, del),
        pruned  |-> AllIds(b1, del) \cup
                    (IF dfn \in DOMAIN baks THEN Ids(baks[dfn]) ELSE {}) ]

\* Variant of shouldRollover without the single-backup handler's override.
shouldRolloverAnyPolicy == today >= rolloverAt

\* Variant of shouldRollover that lets the whole day of rolloverAt pass.
shouldRolloverLate == policy = "timed" /\ today > rolloverAt

\* shouldRollover: never for the single-backup handler, at or after
\* rolloverAt for the timed one.
shouldRollover == policy = "timed" /\ today >= rolloverAt

\* create_log_handler(LOG_FILE, LOG_ROTATE_DAYS), called by main.
CreateOk ==
  /\ pc = "init"
  /\ preActive' = active
  /\ preBackups' = backups
  /\ ctorErr' = "none"
  /\ ctorCause' = "none"
  /\ sink' = "open"
  /\ IF policy = "timed"
     THEN /\ active' = OpenAppend(active)
          /\ activeMtime' = MtimeAfterOpen(active, activeMtime, today)
          /\ rolloverAt' = activeMtime' + 1
          /\ UNCHANGED <<backups, pruned>>
     ELSE LET r == RolloverSingle(OpenAppend(active), backups)
          IN  /\ active' = r.active
              /\ activeMtime' = today
              /\ backups' = r.backups
              /\ pruned' = pruned \cup r.pruned
              /\ UNCHANGED rolloverAt
  /\ lastEmitDay' = activeMtime'
  /\ pc' = "spawn"
  /\ UNCHANGED <<policy, keepCount, today, inHandler, unwind, pending, cur,
                 retval, diag, exitStatus, sigCount, sigSeen, streamErr,
                 procVars, ioVars, histVars, runs>>

\* The rollover at startup raises OSError after closing the stream: the
\* inner except prints the error and the handler is returned all the same.
CreateRolloverFails ==
  /\ pc = "init"
  /\ policy = "single"
  /\ preActive' = active
  /\ preBackups' = backups
  /\ ctorErr' = "rollover"
  /\ \E cause \in {"FileNotFoundError", "PermissionError"} :
       ctorCause' = cause
  /\ sink' = "noStream"
  /\ active' = OpenAppend(active)
  /\ activeMtime' = MtimeAfterOpen(active, activeMtime, today)
  /\ lastEmitDay' = activeMtime'
  /\ pc' = "spawn"
  /\ UNCHANGED <<policy, keepCount, today, backups, pruned, rolloverAt,
                 inHandler, unwind, pending, cur, retval, diag, exitStatus,
                 sigCount, sigSeen, streamErr, procVars, ioVars, histVars,
                 runs>>

\* Variant of CreateOpenFails that reports the error and goes on to spawn
\* the producer.
CreateOpenFailsContinues ==
  /\ pc = "init"
  /\ preActive' = active
  /\ preBackups' = backups
  /\ ctorErr' = "open"
  /\ \E cause \in {"PermissionError", "OSError"} : ctorCause' = cause
  /\ pc' = "spawn"
  /\ UNCHANGED <<policy, keepCount, today, diskVars, sink, rolloverAt,
                 lastEmitDay, exitStatus,
                 inHandler, unwind, pending, cur, retval, diag, sigCount,
                 sigSeen, streamErr, procVars, ioVars, histVars, runs>>

\* Opening the file raises: the outer except clauses call sys.exit(1).
CreateOpenFails ==
  /\ pc = "init"
  /\ preActive' = active
  /\ preBackups' = backups
  /\ ctorErr' = "open"
  /\ \E cause \in {"PermissionError", "OSError"} : ctorCause' = cause
  /\ pc' = "exited"
  /\ exitStatus' = 1
  /\ UNCHANGED <<policy, keepCount, today, diskVars, sink, rolloverAt,
                 lastEmitDay,
                 inHandler, unwind, pending, cur, retval, diag, sigCount,
                 sigSeen, streamErr, procVars, ioVars, histVars, runs>>

\* Variant: the entry is written before the rotation.
EmitDiskWriteFirst(act, baks, roll, at, keep, entry, ok) ==
  LET w == IF ok THEN Append(OpenAppend(act), entry) ELSE OpenAppend(act)
      r == IF roll THEN RolloverTimed(w, baks, at, keep)
           ELSE [active |-> w, backups |-> baks, pruned |-> {}]
  IN  [active |-> r.active, backups |-> r.backups, pruned |-> r.pruned]

\* One emit of the handler (BaseRotatingHandler.emit): rotate first when
\* shouldRollover says so, reopen the stream when it is None, then write
\* the entry; ok = FALSE is a write that raises, which leaves the file as
\* it was.
EmitDisk(act, baks, roll, at, keep, entry, ok) ==
  LET r == IF roll THEN RolloverTimed(act, baks, at, keep)
           ELSE [active |-> OpenAppend(act), backups |-> baks, pruned |-> {}]
  IN  [ active  |-> IF ok THEN Append(r.active, entry) ELSE r.active,
        backups |-> r.backups,
        pruned  |-> r.pruned ]

\* ------------------------------------------------------------ stream pump
\* Variant: the newest unread line is returned.
PipeNextNewest(p) == p[Len(p)]

\* for line in process.stdout: the oldest unread line comes first.
PipeNext(p) == Head(p)
PipeRest(p) == Tail(p)

\* subprocess.Popen(cmd, ...) succeeds.
Spawn ==
  /\ pc = "spawn"
  /\ proc' = "alive"
  /\ stdoutOpen' = TRUE
  /\ pc' = "registering"
  /\ UNCHANGED <<policy, keepCount, today, diskVars, sinkVars, inHandler,
                 unwind, pending, cur, retval, diag, exitStatus, sigCount,
                 sigSeen, streamErr, procStatus, reaped, returncode, termReq,
                 termSent, ioVars, histVars, runs>>

\* subprocess.Popen raises (no such command): the call is outside the try,
\* so the exception leaves stream_logs_to_file and main uncaught.
SpawnFails ==
  /\ pc = "spawn"
  /\ pc' = "exited"
  /\ exitStatus' = 1
  /\ UNCHANGED <<policy, keepCount, today, diskVars, sinkVars, inHandler,
                 unwind, pending, cur, retval, diag, sigCount, sigSeen,
                 streamErr, procVars, ioVars, histVars, runs>>

\* signal.signal(SIGTERM, ...); signal.signal(SIGINT, ...)
RegisterHandlers ==
  /\ pc = "registering"
  /\ pc' = "streaming"
  /\ UNCHANGED <<policy, keepCount, today, diskVars, sinkVars, inHandler,
                 unwind, pending, cur, retval, diag, exitStatus, sigCount,
                 sigSeen, streamErr, procVars, ioVars, histVars, runs>>

\* A shutdown signal before the handlers are registered takes the default
\* disposition: SIGTERM kills the process, SIGINT raises KeyboardInterrupt
\* outside the try and the interpreter dies of SIGINT.
SignalDefault ==
  /\ pc \in {"spawn", "registering"}
  /\ sigCount < MaxSignals
  /\ sigCount' = sigCount + 1
  /\ pc' = "exited"
  /\ \E st \in {-15, -2} : exitStatus' = st
  /\ UNCHANGED <<policy, keepCount, today, diskVars, sinkVars, inHandler,
                 unwind, pending, cur, retval, diag, sigSeen, streamErr,
                 procVars, ioVars, histVars, runs>>

\* The iterator returns the next line.
ReadLine ==
  /\ pc = "streaming"
  /\ pipe # <<>>
  /\ cur' = PipeNext(pipe)
  /\ pipe' = PipeRest(pipe)
  /\ pc' = "have_line"
  /\ UNCHANGED <<policy, keepCount, today, diskVars, sinkVars, inHandler,
                 unwind, pending, retval, diag, exitStatus, sigCount, sigSeen,
                 streamErr, procVars, written, nWritten, histVars, runs>>

\* clean_line = strip_ansi_codes(line.rstrip('\n')); logger.info(clean_line)
Forward ==
  /\ pc = "have_line"
  /\ \E ok \in IF Cardinality(dropped) < MaxWriteErrors THEN BOOLEAN
                ELSE {TRUE} :
       LET roll == shouldRollover
           r == EmitDisk(active, backups, roll, rolloverAt, keepCount,
                         <<nextId, clean_line(cur)>>, ok)
       IN  /\ active' = r.active
           /\ backups' = r.backups
           /\ pruned' = pruned \cup r.pruned
           /\ activeMtime' = IF ok \/ roll \/ active = NoFile THEN today
                             ELSE activeMtime
           /\ rolloverAt' = IF roll THEN today + 1 ELSE rolloverAt
           /\ lastWrite' = IF ok THEN "ok" ELSE "failed"
           /\ dropped' = IF ok THEN dropped ELSE dropped \cup {nextId}
           /\ rotations' = IF roll THEN Append(rotations, OpenAppend(active))
                           ELSE rotations
  /\ sink' = "open"
  /\ lastEmitDay' = today
  /\ emitted' = Append(emitted, clean_line(cur))
  /\ nextId' = nextId + 1
  /\ cur' = <<>>
  /\ pc' = "streaming"
  /\ UNCHANGED <<policy, keepCount, today, ctorErr, ctorCause, preActive,
                 preBackups,
                 inHandler, unwind, pending, retval, diag, exitStatus,
                 sigCount, sigSeen, streamErr, procVars, ioVars, runs>>

\* The iterator is exhausted: the loop ends and the finally block runs.
EndOfStream ==
  /\ pc = "streaming"
  /\ pipe = <<>>
  /\ ~stdoutOpen
  /\ pending' = "normal"
  /\ pc' = "terminate"
  /\ UNCHANGED <<policy, keepCount, today, diskVars, sinkVars, inHandler,
                 unwind, cur, retval, diag, exitStatus, sigCount, sigSeen,
                 streamErr, procVars, ioVars, histVars, runs>>

\* Reading raises (an undecodable byte): except Exception prints the error
\* and returns 1, through the finally block.
ReadError ==
  /\ pc = "streaming"
  /\ streamErr' = TRUE
  /\ retval' = 1
  /\ pending' = "return1"
  /\ pc' = "terminate"
  /\ UNCHANGED <<policy, keepCount, today, diskVars, sinkVars, inHandler,
                 unwind, cur, diag, exitStatus, sigCount, sigSeen, procVars,
                 ioVars, histVars, runs>>


\* Variant of Terminate that signals the child without polling it first.
TerminateNoPoll ==
  /\ pc = "terminate"
  /\ termReq' = TRUE
  /\ IF reaped THEN UNCHANGED <<reaped, returncode, termSent>>
     ELSE termSent' = TRUE /\ UNCHANGED <<reaped, returncode>>
  /\ pc' = "wait"
  /\ UNCHANGED <<policy, keepCount, today, diskVars, sinkVars, inHandler,
                 unwind, pending, cur, retval, diag, exitStatus, sigCount,
                 sigSeen, streamErr, proc, procStatus, stdoutOpen, ioVars,
                 histVars, runs>>

\* process.terminate(), in signal_handler and in the finally block: polls
\* the child first and signals it only when it has not exited.
Terminate ==
  /\ pc = "terminate"
  /\ termReq' = TRUE
  /\ IF reaped THEN UNCHANGED <<reaped, returncode, termSent>>
     ELSE IF proc = "dead"
          THEN reaped' = TRUE /\ returncode' = procStatus /\ UNCHANGED termSent
          ELSE termSent' = TRUE /\ UNCHANGED <<reaped, returncode>>
  /\ pc' = "wait"
  /\ UNCHANGED <<policy, keepCount, today, diskVars, sinkVars, inHandler,
                 unwind, pending, cur, retval, diag, exitStatus, sigCount,
                 sigSeen, streamErr, proc, procStatus, stdoutOpen, ioVars,
                 histVars, runs>>

\* process.wait(timeout=5) returns: the child has exited.
WaitReaped ==
  /\ pc = "wait"
  /\ reaped \/ proc = "dead"
  /\ reaped' = TRUE
  /\ returncode' = IF reaped THEN returncode ELSE procStatus
  /\ pc' = "close"
  /\ UNCHANGED <<policy, keepCount, today, diskVars, sinkVars, inHandler,
                 unwind, pending, cur, retval, diag, exitStatus, sigCount,
                 sigSeen, streamErr, proc, procStatus, termReq, termSent,
                 stdoutOpen, ioVars, histVars, runs>>

\* Variant of WaitTimeout for a wait() without timeout: it never returns
\* while the child is alive.
WaitForever ==
  /\ pc = "wait"
  /\ ~reaped
  /\ proc = "alive"
  /\ FALSE
  /\ UNCHANGED vars

\* process.wait(timeout=5) raises TimeoutExpired: the child is still alive.
WaitTimeout ==
  /\ pc = "wait"
  /\ ~reaped
  /\ proc = "alive"
  /\ pc' = "kill"
  /\ UNCHANGED <<policy, keepCount, today, diskVars, sinkVars, inHandler,
                 unwind, pending, cur, retval, diag, exitStatus, sigCount,
                 sigSeen, streamErr, procVars, ioVars, histVars, runs>>

\* process.kill(): polls, then SIGKILL; the child is not waited for again.
Kill ==
  /\ pc = "kill"
  /\ IF proc = "dead"
     THEN /\ reaped' = TRUE
          /\ returncode' = procStatus
          /\ UNCHANGED <<proc, procStatus, stdoutOpen>>
     ELSE /\ proc' = "dead"
          /\ procStatus' = -9
          /\ stdoutOpen' = FALSE
          /\ UNCHANGED <<reaped, returncode>>
  /\ pc' = "close"
  /\ UNCHANGED <<policy, keepCount, today, diskVars, sinkVars, inHandler,
                 unwind, pending, cur, retval, diag, exitStatus, sigCount,
                 sigSeen, streamErr, termReq, termSent, ioVars, histVars,
                 runs>>

\* handler.close(), then what follows it: sys.exit(0) in signal_handler;
\* after the finally block the pending return, the pending SystemExit or
\* the return code check.
Close ==
  /\ pc = "close"
  /\ sink' = "closed"
  /\ IF inHandler THEN pc' = "sh_exit" /\ UNCHANGED exitStatus
     ELSE IF pending = "sysexit" THEN pc' = "exited" /\ exitStatus' = 0
     ELSE IF pending = "return1" THEN pc' = "returning" /\ UNCHANGED exitStatus
     ELSE pc' = "check" /\ UNCHANGED exitStatus
  /\ UNCHANGED <<policy, keepCount, today, diskVars, rolloverAt, ctorErr,
                 ctorCause, lastEmitDay,
                 preActive, preBackups, inHandler, unwind, pending, cur,
                 retval, diag, sigCount, sigSeen, streamErr, procVars, ioVars,
                 histVars, runs>>

\* Variant: every non-zero return code is reported as a failure.
CheckReturnCodeNonZero ==
  /\ pc = "check"
  /\ IF reaped /\ returncode # 0
     THEN retval' = 1 /\ diag' = returncode
     ELSE retval' = 0 /\ UNCHANGED diag
  /\ pc' = "returning"
  /\ UNCHANGED <<policy, keepCount, today, diskVars, sinkVars, inHandler,
                 unwind, pending, cur, exitStatus, sigCount, sigSeen,
                 streamErr, procVars, ioVars, histVars, runs>>

\* if process.returncode and process.returncode > 0: ... return 1
\* return 0
CheckReturnCode ==
  /\ pc = "check"
  /\ IF reaped /\ returncode > 0
     THEN retval' = 1 /\ diag' = returncode
     ELSE retval' = 0 /\ UNCHANGED diag
  /\ pc' = "returning"
  /\ UNCHANGED <<policy, keepCount, today, diskVars, sinkVars, inHandler,
                 unwind, pending, cur, exitStatus, sigCount, sigSeen,
                 streamErr, procVars, ioVars, histVars, runs>>

\* sys.exit(main())
Exit ==
  /\ pc = "returning"
  /\ pc' = "exited"
  /\ exitStatus' = retval
  /\ UNCHANGED <<policy, keepCount, today, diskVars, sinkVars, inHandler,
                 unwind, pending, cur, retval, diag, sigCount, sigSeen,
                 streamErr, procVars, ioVars, histVars, runs>>

\* SIGTERM or SIGINT once the handlers are registered: signal_handler starts
\* between two steps of the main thread (or of a running signal_handler).
Registered == pc \in {"streaming", "have_line", "terminate", "wait", "kill",
                      "close", "check", "returning", "sh_exit"}
InTry == pc \in {"streaming", "have_line"}

Signal ==
  /\ Registered
  /\ sigCount < MaxSignals
  /\ sigCount' = sigCount + 1
  /\ sigSeen' = TRUE
  /\ unwind' = IF inHandler THEN unwind
               ELSE IF InTry THEN "finally" ELSE "exit"
  /\ inHandler' = TRUE
  /\ pc' = "terminate"
  /\ UNCHANGED <<policy, keepCount, today, diskVars, sinkVars, pending, cur,
                 retval, diag, exitStatus, streamErr, procVars, ioVars,
                 histVars, runs>>

\* Variant: signal_handler returns without sys.exit(0) and the interrupted
\* loop goes on.
HandlerExitResumes ==
  /\ pc = "sh_exit"
  /\ inHandler' = FALSE
  /\ IF unwind = "finally"
     THEN pc' = "streaming" /\ UNCHANGED exitStatus
     ELSE pc' = "exited" /\ exitStatus' = 0
  /\ UNCHANGED <<policy, keepCount, today, diskVars, sinkVars, unwind,
                 pending, cur, retval, diag, sigCount, sigSeen, streamErr,
                 procVars, ioVars, histVars, runs>>

\* sys.exit(0) in signal_handler: SystemExit passes the except clauses and
\* runs the finally block when the try was interrupted, and ends the
\* process otherwise.
HandlerExit ==
  /\ pc = "sh_exit"
  /\ inHandler' = FALSE
  /\ IF unwind = "finally"
     THEN pending' = "sysexit" /\ pc' = "terminate" /\ UNCHANGED exitStatus
     ELSE pc' = "exited" /\ exitStatus' = 0 /\ UNCHANGED pending
  /\ UNCHANGED <<policy, keepCount, today, diskVars, sinkVars, unwind, cur,
                 retval, diag, sigCount, sigSeen, streamErr, procVars, ioVars,
                 histVars, runs>>

\* --------------------------------------------------------------- producer
\* The producer runs on its own; its steps are taken at the points where
\* the pump can tell the difference: before a read, and before each step of
\* a cleanup that polls or signals it.

ProducerWrite ==
  /\ pc \in {"streaming", "terminate"}
  /\ proc = "alive"
  /\ stdoutOpen
  /\ nWritten < MaxLines
  /\ Len(pipe) < MaxPipe
  /\ \E l \in RawLines :
       /\ pipe' = Append(pipe, l)
       /\ written' = Append(written, l)
  /\ nWritten' = nWritten + 1
  /\ UNCHANGED <<policy, keepCount, today, diskVars, sinkVars, ctlVars,
                 procVars, histVars, runs>>

ProducerClosesStdout ==
  /\ pc = "streaming"
  /\ proc = "alive"
  /\ stdoutOpen
  /\ stdoutOpen' = FALSE
  /\ UNCHANGED <<policy, keepCount, today, diskVars, sinkVars, ctlVars, proc,
                 procStatus, reaped, returncode, termReq, termSent, ioVars,
                 histVars, runs>>

ProducerExits ==
  /\ pc \in {"streaming", "terminate", "wait", "kill"}
  /\ proc = "alive"
  /\ proc' = "dead"
  /\ stdoutOpen' = FALSE
  /\ \E st \in OwnStatuses : procStatus' = st
  /\ UNCHANGED <<policy, keepCount, today, diskVars, sinkVars, ctlVars,
                 reaped, returncode, termReq, termSent, ioVars, histVars,
                 runs>>

\* The producer dies of the SIGTERM that process.terminate() sent.
ProducerTerminated ==
  /\ pc \in {"wait", "kill"}
  /\ proc = "alive"
  /\ termSent
  /\ proc' = "dead"
  /\ stdoutOpen' = FALSE
  /\ procStatus' = -15
  /\ UNCHANGED <<policy, keepCount, today, diskVars, sinkVars, ctlVars,
                 reaped, returncode, termReq, termSent, ioVars, histVars,
                 runs>>

\* ------------------------------------------------------------ environment
\* Midnight passes.  Only the timed handler reads the clock, when it is
\* created and in emit.
Tick ==
  /\ policy = "timed"
  /\ pc = "init" \/ (pc = "streaming" /\ pipe # <<>>)
  /\ today < MaxDay
  /\ today' = today + 1
  /\ UNCHANGED <<policy, keepCount, diskVars, sinkVars, ctlVars, procVars,
                 ioVars, histVars, runs>>

\* The add-on is started again with the same configuration.
Restart ==
  /\ pc = "exited"
  /\ runs < MaxRuns
  /\ runs' = runs + 1
  /\ pc' = "init"
  /\ sink' = "absent"
  /\ rolloverAt' = 0
  /\ inHandler' = FALSE
  /\ unwind' = "exit"
  /\ pending' = "normal"
  /\ cur' = <<>>
  /\ retval' = 0
  /\ diag' = 0
  /\ exitStatus' = 0
  /\ sigCount' = 0
  /\ sigSeen' = FALSE
  /\ streamErr' = FALSE
  /\ proc' = "none"
  /\ procStatus' = 0
  /\ reaped' = FALSE
  /\ returncode' = 0
  /\ termReq' = FALSE
  /\ termSent' = FALSE
  /\ stdoutOpen' = FALSE
  /\ pipe' = <<>>
  /\ written' = <<>>
  /\ emitted' = <<>>
  /\ lastWrite' = "none"
  /\ UNCHANGED <<policy, keepCount, today, diskVars, ctorErr, ctorCause,
                 lastEmitDay, preActive,
                 preBackups, nWritten, nextId, dropped, rotations>>

\* ------------------------------------------------------------------- spec
Init ==
  /\ \E k \in 0..MaxKeep :
       /\ keepCount = k
       /\ policy = IF k = 0 THEN "single" ELSE "timed"
       /\ backups \in IF k = 0 THEN {NoBackups, Put(NoBackups, 1, OldBackup)}
                      ELSE {NoBackups}
  /\ today = 0
  /\ active \in {NoFile, <<>>, OldActive}
  /\ activeMtime = 0
  /\ pruned = {}
  /\ sink = "absent"
  /\ rolloverAt = 0
  /\ ctorErr = "none"
  /\ ctorCause = "none"
  /\ lastEmitDay = 0
  /\ preActive = NoFile
  /\ preBackups = NoBackups
  /\ pc = "init"
  /\ inHandler = FALSE
  /\ unwind = "exit"
  /\ pending = "normal"
  /\ cur = <<>>
  /\ retval = 0
  /\ diag = 0
  /\ exitStatus = 0
  /\ sigCount = 0
  /\ sigSeen = FALSE
  /\ streamErr = FALSE
  /\ proc = "none"
  /\ procStatus = 0
  /\ reaped = FALSE
  /\ returncode = 0
  /\ termReq = FALSE
  /\ termSent = FALSE
  /\ stdoutOpen = FALSE
  /\ pipe = <<>>
  /\ written = <<>>
  /\ emitted = <<>>
  /\ lastWrite = "none"
  /\ nextId = 1
  /\ dropped = {}
  /\ rotations = <<>>
  /\ nWritten = 0
  /\ runs = 1

Next ==
  \/ CreateOk
  \/ CreateRolloverFails
  \/ CreateOpenFails
  \/ Spawn
  \/ SpawnFails
  \/ RegisterHandlers
  \/ SignalDefault
  \/ ReadLine
  \/ Forward
  \/ EndOfStream
  \/ ReadError
  \/ Terminate
  \/ WaitReaped
  \/ WaitTimeout
  \/ Kill
  \/ Close
  \/ CheckReturnCode
  \/ Exit
  \/ Signal
  \/ HandlerExit
  \/ ProducerWrite
  \/ ProducerClosesStdout
  \/ ProducerExits
  \/ ProducerTerminated
  \/ Tick
  \/ Restart

Spec == Init /\ [][Next]_vars

\* The stream pump of one process, started on a single-backup sink: every
\* step of the pump, the producer and the signals, without the clock.
PumpInit == Init /\ policy = "single"

PumpNext ==
  \/ CreateOk
  \/ CreateRolloverFails
  \/ CreateOpenFails
  \/ Spawn
  \/ SpawnFails
  \/ RegisterHandlers
  \/ SignalDefault
  \/ ReadLine
  \/ Forward
  \/ EndOfStream
  \/ ReadError
  \/ Terminate
  \/ WaitReaped
  \/ WaitTimeout
  \/ Kill
  \/ Close
  \/ CheckReturnCode
  \/ Exit
  \/ Signal
  \/ HandlerExit
  \/ ProducerWrite
  \/ ProducerClosesStdout
  \/ ProducerExits
  \/ ProducerTerminated

PumpSpec == PumpInit /\ [][PumpNext]_vars

\* The pump's own steps from the start of a cleanup to the end of the
\* process: statements of one thread, each of which returns (wait after at
\* most its timeout), so the thread always takes its next step.
InCleanup == pc \in {"terminate", "wait", "kill", "close", "check",
                     "returning", "sh_exit"}

CleanupStep ==
  \/ Terminate
  \/ WaitReaped
  \/ WaitTimeout
  \/ Kill
  \/ Close
  \/ CheckReturnCode
  \/ Exit
  \/ HandlerExit

\* The stream pump started on an absent log file, with its cleanup steps
\* always taken in the end; the producer and the signals are under no
\* such obligation.
LiveInit == PumpInit /\ backups = NoBackups /\ active = NoFile

LiveSpec == LiveInit /\ [][PumpNext]_vars /\ WF_vars(CleanupStep)

\* The filter applied to any line: the pump of a fresh single-backup sink
\* holds a line just read, one of all the lines of at most MaxStrLen
\* characters over StripChars, and forwards it.
StripChars == {ESC, LBR, "0", ";", "m", ":"}
StripInputs == UNION { [1..n -> StripChars] : n \in 0..MaxStrLen }

StripInit ==
  /\ policy = "single"
  /\ keepCount = 0
  /\ today = 0
  /\ active = <<>>
  /\ activeMtime = 0
  /\ backups = Put(NoBackups, 1, <<>>)
  /\ pruned = {}
  /\ sink = "open"
  /\ rolloverAt = 0
  /\ ctorErr = "none"
  /\ ctorCause = "none"
  /\ lastEmitDay = 0
  /\ preActive = NoFile
  /\ preBackups = NoBackups
  /\ pc = "have_line"
  /\ inHandler = FALSE
  /\ unwind = "exit"
  /\ pending = "normal"
  /\ \E text \in StripInputs :
       /\ cur = text \o <<NL>>
       /\ written = <<cur>>
  /\ retval = 0
  /\ diag = 0
  /\ exitStatus = 0
  /\ sigCount = 0
  /\ sigSeen = FALSE
  /\ streamErr = FALSE
  /\ proc = "alive"
  /\ procStatus = 0
  /\ reaped = FALSE
  /\ returncode = 0
  /\ termReq = FALSE
  /\ termSent = FALSE
  /\ stdoutOpen = TRUE
  /\ pipe = <<>>
  /\ emitted = <<>>
  /\ lastWrite = "none"
  /\ nextId = 1
  /\ dropped = {}
  /\ rotations = <<>>
  /\ nWritten = 1
  /\ runs = 1

StripNext == Forward

StripSpec == StripInit /\ [][StripNext]_vars

\* The rotation sink over the life of the add-on: processes that stream to
\* the end of the producer's output while days pass, one after the other.
SinkNext ==
  \/ CreateOk
  \/ CreateRolloverFails
  \/ CreateOpenFails
  \/ Spawn
  \/ RegisterHandlers
  \/ ReadLine
  \/ Forward
  \/ EndOfStream
  \/ Terminate
  \/ WaitReaped
  \/ Close
  \/ CheckReturnCode
  \/ Exit
  \/ ProducerWrite
  \/ ProducerExits
  \/ Tick
  \/ Restart

SinkSpec == Init /\ [][SinkNext]_vars

\* ----------------------------------------------------------------- claims
OnDisk == Ids(active) \cup AllIds(backups, DOMAIN backups)

\* Places where the entry of emit id is found: <<-1, i>> is line i of the
\* active file, <<n, i>> line i of backup n.
Where(id) ==
  {<<-1, i>> : i \in {j \in 1..Len(OpenAppend(active)) : active[j][1] = id}}
  \cup UNION {{<<n, i>> : i \in {j \in 1..Len(backups[n]) :
                                    backups[n][j][1] = id}}
              : n \in DOMAIN backups}

\* C1: the lines passed to logger.info are at every moment the cleaned
\* lines the producer wrote, in the producer's order, without a gap, a
\* repeat or a swap; while the loop runs every written line is forwarded,
\* in hand or unread, and a run that ends at end-of-stream has forwarded
\* them all.
C1_ForwardedIsPrefix ==
  /\ Len(emitted) <= Len(written)
  /\ \A i \in 1..Len(emitted) : emitted[i] = clean_line(written[i])
  /\ InTry =>
       Len(emitted) + Len(pipe) + (IF pc = "have_line" THEN 1 ELSE 0)
         = Len(written)
  /\ (pc = "returning" /\ ~streamErr /\ ~sigSeen) =>
       Len(emitted) = Len(written)

C1_Witness ==
  /\ Len(emitted) = 2
  /\ emitted[1] # emitted[2]
  /\ written[2] # emitted[2]

\* C2, state part: an entry written by an emit is in exactly one file, or
\* in none once its backup was deleted; an emit whose write failed left
\* no entry.
C2_ExactlyOnce ==
  \A id \in 1..(nextId - 1) :
    IF id \in dropped THEN Where(id) = {}
    ELSE \/ Cardinality(Where(id)) = 1 /\ id \notin pruned
         \/ Where(id) = {} /\ id \in pruned

\* C2, step part: an emit that writes appends exactly its one entry at the
\* end of the active file; when it rotates, the rotation is done first, the
\* entry is the only content of the new active file and the old content
\* is, whole, a backup.
C2_EmitStep ==
  (nextId' = nextId + 1 /\ lastWrite' = "ok") =>
    /\ active' # NoFile
    /\ Len(active') > 0
    /\ active'[Len(active')][1] = nextId
    /\ IF rolloverAt' # rolloverAt
       THEN /\ Len(active') = 1
            /\ \E n \in DOMAIN backups' : backups'[n] = active
            /\ Ids(active) \cap Ids(active') = {}
       ELSE /\ SubSeq(active', 1, Len(active') - 1) = OpenAppend(active)
            /\ backups' = backups

\* C2: every emit appends exactly one line to the active file, a rotation
\* triggered by an emit completes before the write, and no line is lost,
\* duplicated or split across the rotation.
C2_EmitAndRotation == []C2_ExactlyOnce /\ [][C2_EmitStep]_vars

C2_Witness ==
  /\ policy = "timed"
  /\ lastWrite = "ok"
  /\ Len(rotations) = 1
  /\ Ids(active) = {2}
  /\ \E n \in DOMAIN backups : 1 \in Ids(backups[n])

\* C3: after a shutdown signal delivered in the streaming loop the process
\* ends with the producer asked to terminate, the sink closed and status
\* 0; and once a signal handler has started, no emit is made and no file
\* changes.
C3_SignalInLoop ==
  /\ [](pc = "exited" /\ pending = "sysexit" =>
          termReq /\ sink = "closed" /\ exitStatus = 0)
  /\ [][sigSeen => nextId' = nextId /\ active' = active
                   /\ backups' = backups]_vars

C3_Witness ==
  /\ pc = "exited"
  /\ pending = "sysexit"
  /\ Len(emitted) = 1
  /\ Len(written) = 2

\* C4: in every ended process whose pump has started, the sink is closed
\* and a spawned producer has been asked to terminate.
C4_CleanupOnEveryExit ==
  (pc = "exited" /\ sink # "absent") =>
    sink = "closed" /\ (proc # "none" => termReq)

\* C5: a process that received a shutdown signal ends with status 0.
C5_SignalAlwaysExitsZero ==
  (pc = "exited" /\ sigCount > 0) => exitStatus = 0

\* C6: without a streaming error and without a signal, the pump returns 1
\* and names the status when the producer's exit status is positive, and
\* returns 0 with no diagnostic when it is 0 or negative.
C6_ReturnFollowsStatus ==
  (pc = "returning" /\ ~streamErr /\ ~sigSeen) =>
    /\ proc = "dead"
    /\ IF procStatus > 0 THEN retval = 1 /\ diag = procStatus
       ELSE retval = 0 /\ diag = 0

C6_Witness ==
  /\ pc = "returning"
  /\ ~streamErr
  /\ ~sigSeen
  /\ procStatus = 2
  /\ retval = 1
  /\ diag = 2

\* C7: the number of backup files never exceeds the retention limit: 1 for
\* the single-backup policy, keepCount for the timed one.
C7_BackupsWithinLimit ==
  Cardinality(DOMAIN backups) <= (IF policy = "single" THEN 1 ELSE keepCount)

C7_Witness ==
  /\ policy = "timed"
  /\ keepCount = 1
  /\ Len(rotations) = 2
  /\ Cardinality(DOMAIN backups) = 1
  /\ pruned # {}

\* C8: with the timed policy and keepCount = N, after M > N rotations there
\* are exactly N backups, they hold the contents of the last N rotations,
\* oldest name first, and no entry of an older rotation is on disk.
C8_KeepsNewestRotations ==
  (policy = "timed" /\ Len(rotations) > keepCount) =>
    LET M == Len(rotations)
        N == keepCount
        Rank(n) == Cardinality({m \in DOMAIN backups : m <= n})
    IN  /\ Cardinality(DOMAIN backups) = N
        /\ \A n \in DOMAIN backups : backups[n] = rotations[M - N + Rank(n)]
        /\ \A j \in 1..(M - N) : Ids(rotations[j]) \cap OnDisk = {}

C8_Witness ==
  /\ policy = "timed"
  /\ keepCount = 1
  /\ Len(rotations) = 2
  /\ rotations[1] # <<>>
  /\ rotations[2] # <<>>

\* C9: with the single-backup policy, a sink constructed without an I/O
\* error on an existing file of content C has, until the first emit,
\* <path>.1 holding exactly C and an existing, empty active file.
C9_StartupBackup ==
  (policy = "single" /\ sink # "absent" /\ ctorErr = "none"
     /\ preActive # NoFile /\ emitted = <<>>) =>
    /\ 1 \in DOMAIN backups
    /\ backups[1] = preActive
    /\ active = <<>>

C9_Witness ==
  /\ policy = "single"
  /\ pc = "spawn"
  /\ ctorErr = "none"
  /\ runs = 2
  /\ preActive # NoFile
  /\ 1 \in Ids(preActive)
  /\ backups[1] = preActive
  /\ active = <<>>

\* C10: with the single-backup policy, constructing the sink when the
\* target file does not exist leaves the backups as they were and the
\* sink usable.
C10_NoBackupWhenAbsent ==
  (policy = "single" /\ pc = "spawn" /\ ctorErr = "none"
     /\ preActive = NoFile) =>
    /\ backups = preBackups
    /\ sink = "open"

\* The step is the successful construction of a timed sink.
C11_ConstructionStep ==
  (policy = "timed" /\ pc = "init" /\ pc' = "spawn") =>
    /\ rotations' = rotations
    /\ backups' = backups
    /\ active' = OpenAppend(active)

\* The step is an emit of a timed sink.
C11_EmitStep ==
  (policy = "timed" /\ nextId' = nextId + 1) =>
    IF today > lastEmitDay
    THEN /\ Len(rotations') = Len(rotations) + 1
         /\ rotations'[Len(rotations')] = OpenAppend(active)
         /\ lastWrite' = "ok" => active' = << <<nextId, emitted'[Len(emitted')]>> >>
    ELSE /\ rotations' = rotations
         /\ backups' = backups

\* C11: with the timed policy, constructing the sink rotates nothing, and
\* an emit rotates, exactly once and before it writes, if and only if a
\* midnight has passed since the previous emit (for the first emit, since
\* the active file was last written).
C11_RotatesIffMidnightCrossed ==
  [][C11_ConstructionStep /\ C11_EmitStep]_vars

C11_Witness ==
  /\ policy = "timed"
  /\ nextId = 2
  /\ lastEmitDay = MaxDay
  /\ OldActive = preActive
  /\ rotations = <<OldActive>>
  /\ Ids(active) = {1}

\* A step of a constructed single-backup sink leaves the backups alone and
\* only appends to the active file.
C12_AfterConstruction ==
  (policy = "single" /\ sink # "absent") =>
    /\ backups' = backups
    /\ pruned' = pruned
    /\ rotations' = rotations
    /\ Len(active) <= Len(active')
    /\ SubSeq(active', 1, Len(active)) = active

\* C12: with the single-backup policy the one rollover of a sink's life
\* is the one of its construction, before any emit; no emit rotates, and
\* after construction the backups and the active file's identity never
\* change.
C12_OnlyRolloverIsAtConstruction ==
  /\ []((policy = "single" /\ sink # "absent" /\ ctorErr = "none") =>
          /\ DOMAIN backups = {1}
          /\ backups[1] = OpenAppend(preActive)
          /\ Ids(active) \cap Ids(backups[1]) = {})
  /\ [][C12_AfterConstruction]_vars

C12_Witness ==
  /\ policy = "single"
  /\ ctorErr = "none"
  /\ OldActive = preActive
  /\ backups = Put(NoBackups, 1, OldActive)
  /\ Ids(active) = {1, 2}

\* C13: an emit whose write fails ends the streaming loop: the pump is
\* then past the loop, forwards no later line, and, unless a signal
\* intervenes, exits with status 1.
C13_WriteFailureIsFatal ==
  (lastWrite = "failed" /\ ~sigSeen) =>
    /\ pc \notin {"streaming", "have_line"}
    /\ nextId - 1 \in dropped
    /\ pc = "exited" => exitStatus = 1

\* C14: under either policy, when opening the active file fails in
\* create_log_handler, the process has exited with status 1 and the
\* diagnostic of the error's class, no producer was spawned and no line
\* was read or written.
C14_OpenFailureExitsOne ==
  (ctorErr = "open" /\ pc # "init") =>
    /\ pc = "exited"
    /\ exitStatus = 1
    /\ ctorCause \in {"PermissionError", "OSError"}
    /\ proc = "none"
    /\ sink = "absent"
    /\ emitted = <<>>
    /\ written = <<>>
    /\ backups = preBackups

C14_Witness ==
  /\ policy = "timed"
  /\ ctorErr = "open"
  /\ ctorCause = "PermissionError"
  /\ pc = "exited"
  /\ exitStatus = 1
  /\ runs = 2
  /\ OldActive = active

\* C15: with the single-backup policy, a startup rollover that fails for
\* lack of permission is fatal: the process has exited with a non-zero
\* status and no producer was spawned; one that fails because a file
\* was not found only warns, and the pump goes on to spawn.
C15_RolloverErrorByCause ==
  (policy = "single" /\ ctorErr = "rollover" /\ pc # "init") =>
    IF ctorCause = "PermissionError"
    THEN /\ pc = "exited"
         /\ exitStatus # 0
         /\ proc = "none"
         /\ emitted = <<>>
    ELSE pc = "spawn" => exitStatus = 0

\* process.kill() is reached only from a wait that timed out on a live
\* producer.
C16_KillStep ==
  (pc' = "kill" /\ pc # "kill") =>
    /\ pc = "wait"
    /\ proc = "alive"
    /\ ~reaped
    /\ termReq

\* C16: a cleanup that has started always ends with the process exited,
\* whatever the producer does; the wait for the producer always returns,
\* and the producer is killed only after that wait timed out with the
\* producer still alive.
C16_CleanupTerminates ==
  /\ InCleanup ~> pc = "exited"
  /\ [](pc = "wait" => ENABLED (WaitReaped \/ WaitTimeout))
  /\ [][C16_KillStep]_vars

C16_Witness ==
  /\ pc = "exited"
  /\ termSent
  /\ procStatus = -9
  /\ sink = "closed"
  /\ ~sigSeen

\* s[i..e] is an escape sequence: ESC, '[', digits and ';', one letter.
IsEscapeSequence(s, i, e) ==
  /\ i + 2 <= e
  /\ e <= Len(s)
  /\ s[i] = ESC
  /\ s[i + 1] = LBR
  /\ \A k \in (i + 2)..(e - 1) : s[k] \in ParamChars
  /\ s[e] \in Letters

EscapeSequences(s) ==
  { ie \in { i \in 1..Len(s) : s[i] = ESC } \X
           { e \in 1..Len(s) : s[e] \in Letters } :
      IsEscapeSequence(s, ie[1], ie[2]) }

\* Positions of s outside every escape sequence.
Kept(s) ==
  LET es == EscapeSequences(s)
  IN  { k \in 1..Len(s) : \A ie \in es : k < ie[1] \/ ie[2] < k }

\* r is s restricted to the positions in K, in order.
IsRestriction(r, s, K) ==
  /\ Len(r) = Cardinality(K)
  /\ \A k \in K : r[Cardinality({ j \in K : j <= k })] = s[k]

\* The text of the one line forwarded, without its newline.
StripInput == SubSeq(written[1], 1, Len(written[1]) - 1)

C18_Idempotent ==
  (pc = "streaming" /\ Len(emitted) = 1) =>
    strip_ansi_codes(emitted[1]) = emitted[1]

\* process.terminate() on a producer that has exited sends no signal and
\* leaves the producer as it was.
C19_RepeatedTerminate ==
  (pc = "terminate" /\ pc' = "wait" /\ (reaped \/ proc = "dead")) =>
    /\ termSent' = termSent
    /\ proc' = proc
    /\ procStatus' = procStatus

\* handler.close() on a closed sink leaves the sink and the files as they
\* were.
C19_RepeatedClose ==
  (pc = "close" /\ pc' \in {"sh_exit", "exited", "returning", "check"}
     /\ sink = "closed") =>
    /\ sink' = "closed"
    /\ active' = active
    /\ backups' = backups

\* C19: the cleanup may run again, in the finally block after
\* signal_handler or in a second signal_handler, whatever steps were
\* already done: terminating an exited producer signals nothing, closing a
\* closed sink changes nothing, and a process that handled a signal ends
\* with status 0, its producer asked to terminate and its sink closed.
C19_ShutdownIdempotent ==
  /\ []((pc = "exited" /\ sigSeen) =>
          exitStatus = 0 /\ termReq /\ sink = "closed")
  /\ [][C19_RepeatedTerminate /\ C19_RepeatedClose]_vars

C19_Witness ==
  /\ pc = "exited"
  /\ sigCount = 2
  /\ pending = "sysexit"
  /\ exitStatus = 0
  /\ sink = "closed"
  /\ proc = "dead"
  /\ ~termSent

\* C20: with the single-backup policy, whatever restarts and emits came
\* before, a sink constructed without an I/O error has <path>.1 holding
\* exactly what the active file held just before that construction
\* (nothing, if it was empty or absent), and no entry of the <path>.1
\* found by that construction is on disk any more.
C20_BackupIsLastRunOnly ==
  (policy = "single" /\ sink # "absent" /\ ctorErr = "none") =>
    /\ DOMAIN backups = {1}
    /\ backups[1] = OpenAppend(preActive)
    /\ 1 \in DOMAIN preBackups =>
         /\ Ids(preBackups[1]) \cap OnDisk = {}
         /\ Ids(preBackups[1]) \subseteq pruned

C20_Witness ==
  /\ policy = "single"
  /\ runs = 2
  /\ sink = "open"
  /\ ctorErr = "none"
  /\ <<>> = preActive
  /\ 1 \in DOMAIN preBackups
  /\ preBackups[1] = OldActive
  /\ backups[1] = <<>>

====
